---- MODULE Spec2Model ----
(***************************************************************************)
(* fiv::Vector<T> (src/fiv.hpp): a dense vector whose elements are         *)
(* addressed by recyclable IDs.  Storage positions and ID values are kept  *)
(* 0-based as in the source; At/Put convert to TLA+'s 1-based sequences.   *)
(***************************************************************************)
EXTENDS Integers, Sequences, FiniteSets, TLC

\* ---------------------------------------------------------------- bounds
\* largest number of simultaneously stored elements explored
MaxSize == 3
\* element values are 1..MaxVal
MaxVal == 2
\* width of std::size_t in the model
SizeBits == 8

Values == 1..MaxVal
\* the value field of a result that carries no element
NoValue == 0
SizeMod == 2 ^ SizeBits
\* ID() / fiv::invalidID : numeric_limits<size_t>::max()
invalidID == SizeMod - 1
\* the ID values a caller may hand in: every index that can be in range,
\* one that never is, and the sentinel
Handles == 0..MaxSize
Probes == Handles \cup {invalidID}

\* failure reasons of get
OutOfBounds == "ID out of bounds."
Deleted == "The object with this id has been deleted."
NoReason == ""

\* what std::vector::reserve throws
LengthError == "std::length_error"
\* std::vector<size_t>::max_size(): PTRDIFF_MAX / sizeof(size_t)
maxSize == ((SizeMod \div 2) - 1) \div (SizeBits \div 8)

VARIABLES
    m_KeepOrder,    \* bool m_KeepOrder
    m_Data,         \* std::vector<T> m_Data
    m_IDs,          \* std::vector<size_t> m_IDs
    m_RevIDs,       \* std::vector<ID> m_RevIDs
    m_FreeIDSlots,  \* std::vector<ID> m_FreeIDSlots
    lastOp,         \* the last call: its name, ID, value, position, failure reason
    held,           \* history: ID returned by push/emplace and not since removed
                    \*          |-> the value inserted with it
    issued,         \* history: every ID ever returned by push/emplace
    removed,        \* history: IDs passed to remove and not returned again since
    phase,          \* "ok"; "removing" inside remove's loop;
                    \* "misused" after remove of a stale ID; "aborted"
    loop,           \* remove's loop: the ID, i, where i started, steps done,
                    \* the vectors at the call
    twin,           \* TwinSpec: the vectors of a Vector given the same calls
                    \* whose remove does not clear() when m_Data gets empty
    twinRet         \* the ID twin's last push/emplace returned

vars == <<m_KeepOrder, m_Data, m_IDs, m_RevIDs, m_FreeIDSlots,
          lastOp, held, issued, removed, phase, loop, twin, twinRet>>
\* what the calls of a single Vector, taken as one step each, leave alone
aux == <<loop, twin, twinRet>>

\* ------------------------------------------------------- vector helpers
At(seq, i) == seq[i + 1]
Put(seq, i, x) == [seq EXCEPT ![i + 1] = x]
Back(seq) == seq[Len(seq)]
PopBack(seq) == SubSeq(seq, 1, Len(seq) - 1)
Elems(seq) == {seq[k] : k \in 1..Len(seq)}
\* size_t subtraction
SizeSub(a, b) == (a - b) % SizeMod

\* std::swap(v[i], v[j]).  A read past the end of the vector is undefined:
\* it yields junk; a write past the end lands outside the vector.
vecSwap(seq, i, j, junk) ==
    LET rd(k) == IF k < Len(seq) THEN At(seq, k) ELSE junk
        wr(s, k, x) == IF k < Len(s) THEN Put(s, k, x) ELSE s
    IN wr(wr(seq, i, rd(j)), j, rd(i))

\* the four vectors of a Vector<T>
Self == [data |-> m_Data, ids |-> m_IDs, rev |-> m_RevIDs, free |-> m_FreeIDSlots]
SelfNext == [data |-> m_Data', ids |-> m_IDs', rev |-> m_RevIDs', free |-> m_FreeIDSlots']

\* ---------------------------------------------------------- observers
size(s) == Len(s.data)
indexOf(s, id) == At(s.ids, id)
idAt(s, index) == At(s.rev, index)
dataAt(s, index) == At(s.data, index)

validIDNoFreeScan(s, id) == id >= 0 /\ id < Len(s.ids)

validID(s, id) ==
    id >= 0 /\ id < Len(s.ids) /\ id \notin Elems(s.free)

getReasonOffByOne(s, id) ==
    IF id < 0 \/ id > Len(s.ids) THEN OutOfBounds ELSE Deleted

\* the faliureReason chosen by get when validID fails
getReason(s, id) ==
    IF id < 0 \/ id >= Len(s.ids) THEN OutOfBounds ELSE Deleted

get(s, id) ==
    IF validID(s, id)
    THEN [ok |-> TRUE, val |-> At(s.data, At(s.ids, id)), reason |-> NoReason]
    ELSE [ok |-> FALSE, val |-> NoValue, reason |-> getReason(s, id)]

reserveAmountClamped(s, numElements) ==
    IF numElements >= Len(s.free) THEN numElements - Len(s.free) ELSE 0

\* the argument reserve passes to m_IDs.reserve
reserveAmount(s, numElements) == SizeSub(numElements, Len(s.free))

\* capacities are no part of the state; reserve throws beyond max_size
reserve(s, numElements) ==
    [st |-> s,
     amount |-> reserveAmount(s, numElements),
     reason |-> IF numElements > maxSize \/ reserveAmount(s, numElements) > maxSize
                THEN LengthError ELSE NoReason]

\* ------------------------------------------------------------ mutators
addIDFrontPopBack(s, location) ==
    IF s.free # <<>>
    THEN [st |-> [s EXCEPT !.free = PopBack(@),
                           !.ids = Put(@, Head(s.free), location)],
          ret |-> Head(s.free)]
    ELSE [st |-> [s EXCEPT !.ids = Append(@, location)], ret |-> Len(s.ids)]

addIDFifo(s, location) ==
    IF s.free # <<>>
    THEN [st |-> [s EXCEPT !.free = Tail(@),
                           !.ids = Put(@, Head(s.free), location)],
          ret |-> Head(s.free)]
    ELSE [st |-> [s EXCEPT !.ids = Append(@, location)], ret |-> Len(s.ids)]

addIDKeepFree(s, location) ==
    IF s.free # <<>>
    THEN [st |-> [s EXCEPT !.ids = Put(@, Back(s.free), location)],
          ret |-> Back(s.free)]
    ELSE [st |-> [s EXCEPT !.ids = Append(@, location)], ret |-> Len(s.ids)]

\* returns the new vectors and the ID handed out
addID(s, location) ==
    IF s.free # <<>>
    THEN [st |-> [s EXCEPT !.free = PopBack(@),
                           !.ids = Put(@, Back(s.free), location)],
          ret |-> Back(s.free)]
    ELSE [st |-> [s EXCEPT !.ids = Append(@, location)], ret |-> Len(s.ids)]

swapDataLocationNoIDs(s, el1, el2, junkT, junkID) ==
    LET idx1 == At(s.ids, el1)
        idx2 == At(s.ids, el2)
    IN [s EXCEPT !.data = vecSwap(@, idx1, idx2, junkT),
                 !.rev = vecSwap(@, idx1, idx2, junkID)]

swapDataLocationNoData(s, el1, el2, junkT, junkID) ==
    LET idx1 == At(s.ids, el1)
        idx2 == At(s.ids, el2)
    IN [s EXCEPT !.ids = vecSwap(@, el1, el2, 0),
                 !.rev = vecSwap(@, idx1, idx2, junkID)]

swapDataLocationNoRev(s, el1, el2, junkT, junkID) ==
    LET idx1 == At(s.ids, el1)
        idx2 == At(s.ids, el2)
    IN [s EXCEPT !.ids = vecSwap(@, el1, el2, 0),
                 !.data = vecSwap(@, idx1, idx2, junkT)]

\* junkT / junkID: what an out-of-range read of m_Data / m_RevIDs yields
swapDataLocation(s, el1, el2, junkT, junkID) ==
    LET idx1 == At(s.ids, el1)
        idx2 == At(s.ids, el2)
    IN [s EXCEPT !.ids = vecSwap(@, el1, el2, 0),
                 !.data = vecSwap(@, idx1, idx2, junkT),
                 !.rev = vecSwap(@, idx1, idx2, junkID)]

clearKeepIDs(s) == [data |-> <<>>, ids |-> s.ids, rev |-> <<>>, free |-> <<>>]

clearKeepFree(s) == [data |-> <<>>, ids |-> <<>>, rev |-> <<>>, free |-> s.free]

clear(s) == [data |-> <<>>, ids |-> <<>>, rev |-> <<>>, free |-> <<>>]

RECURSIVE removeLoop(_, _, _, _)
\* for (i = indexOf(id); i < m_Data.size() - 1; i++) swapDataLocation(idAt(i), idAt(i+1))
removeLoop(s, i, junkT, junkID) ==
    IF i < SizeSub(Len(s.data), 1)
    THEN removeLoop(swapDataLocation(s, idAt(s, i), idAt(s, i + 1), junkT, junkID),
                    i + 1, junkT, junkID)
    ELSE s

removeMoveAlwaysSwap(s, keepOrder, id, junkT, junkID) ==
    swapDataLocation(s, id, Back(s.rev), junkT, junkID)

removeMoveAlwaysShift(s, keepOrder, id, junkT, junkID) ==
    removeLoop(s, indexOf(s, id), junkT, junkID)

\* remove, up to the pop: the element of id is moved to the last position
removeMove(s, keepOrder, id, junkT, junkID) ==
    LET lastDataID == Back(s.rev)
    IN IF keepOrder
       THEN removeLoop(s, indexOf(s, id), junkT, junkID)
       ELSE swapDataLocation(s, id, lastDataID, junkT, junkID)

removeTailClearEarly(s, id) ==
    LET popped == [s EXCEPT !.free = Append(@, id),
                            !.data = PopBack(@),
                            !.rev = PopBack(@)]
    IN IF Len(popped.data) <= 1 THEN clear(popped) ELSE popped

removeTailNoClear(s, id) ==
    [s EXCEPT !.free = Append(@, id), !.data = PopBack(@), !.rev = PopBack(@)]

removeTailFreeFront(s, id) ==
    LET popped == [s EXCEPT !.free = <<id>> \o @,
                            !.data = PopBack(@),
                            !.rev = PopBack(@)]
    IN IF popped.data = <<>> THEN clear(popped) ELSE popped

removeTailNoFree(s, id) ==
    LET popped == [s EXCEPT !.data = PopBack(@), !.rev = PopBack(@)]
    IN IF popped.data = <<>> THEN clear(popped) ELSE popped

\* remove, from the push onto the free list on
removeTail(s, id) ==
    LET popped == [s EXCEPT !.free = Append(@, id),
                            !.data = PopBack(@),
                            !.rev = PopBack(@)]
    IN IF popped.data = <<>> THEN clear(popped) ELSE popped

remove(s, keepOrder, id, junkT, junkID) ==
    removeTail(removeMove(s, keepOrder, id, junkT, junkID), id)

\* remove with lines 133-136 left out: no clear() when m_Data gets empty
removeNoReset(s, keepOrder, id, junkT, junkID) ==
    LET moved == removeMove(s, keepOrder, id, junkT, junkID)
    IN [moved EXCEPT !.free = Append(@, id), !.data = PopBack(@), !.rev = PopBack(@)]

removeLoopBodyAhead(s, i, junkT, junkID) ==
    swapDataLocation(s, idAt(s, i + 1), idAt(s, i + 1), junkT, junkID)

\* one pass through the body of remove's loop
removeLoopBody(s, i, junkT, junkID) ==
    swapDataLocation(s, idAt(s, i), idAt(s, i + 1), junkT, junkID)

\* T(args...) built in place from one argument of type T
construct(arg) == arg

emplace(s, arg) ==
    LET d == Append(s.data, construct(arg))
        a == addID([s EXCEPT !.data = d], SizeSub(Len(d), 1))
    IN [st |-> [a.st EXCEPT !.rev = Append(@, a.ret)], ret |-> a.ret]

push(s, element) ==
    LET d == Append(s.data, element)
        a == addID([s EXCEPT !.data = d], SizeSub(Len(d), 1))
    IN [st |-> [a.st EXCEPT !.rev = Append(@, a.ret)], ret |-> a.ret]

\* ---------------------------------------------------------------- state
Store(s) ==
    /\ m_Data' = s.data
    /\ m_IDs' = s.ids
    /\ m_RevIDs' = s.rev
    /\ m_FreeIDSlots' = s.free

Op(name, id, val, at, reason) ==
    [op |-> name, id |-> id, val |-> val, at |-> at, reason |-> reason]

Without(f, id) == [h \in (DOMAIN f) \ {id} |-> f[h]]
With(f, id, x) == [h \in (DOMAIN f) \cup {id} |-> IF h = id THEN x ELSE f[h]]

\* the vectors of a new Vector
Empty == [data |-> <<>>, ids |-> <<>>, rev |-> <<>>, free |-> <<>>]
\* no remove is under way
NoLoop == [id |-> invalidID, i |-> 0, from |-> 0, steps |-> 0, start |-> Empty]

\* the same insertion on the twin
TwinInserted(name, v) ==
    LET r == IF name = "push" THEN push(twin, v) ELSE emplace(twin, v)
    IN twin' = r.st /\ twinRet' = r.ret

\* remove on the twin, of the ID it gave to the element stored at position at
TwinRemoved(at) ==
    /\ twin' = removeNoReset(twin, m_KeepOrder, idAt(twin, at), NoValue, invalidID)
    /\ UNCHANGED twinRet

\* Vector() keeps order, Vector(bool) takes the mode
Init ==
    /\ m_KeepOrder \in BOOLEAN
    /\ m_Data = <<>>
    /\ m_IDs = <<>>
    /\ m_RevIDs = <<>>
    /\ m_FreeIDSlots = <<>>
    /\ lastOp = Op("construct", invalidID, NoValue, 0, NoReason)
    /\ held = <<>>
    /\ issued = {}
    /\ removed = {}
    /\ phase = "ok"
    /\ loop = NoLoop
    /\ twin = Empty
    /\ twinRet = invalidID

Inserted(name, r, v) ==
    /\ Store(r.st)
    /\ lastOp' = Op(name, r.ret, v, Len(m_Data), NoReason)
    /\ held' = With(held, r.ret, v)
    /\ issued' = issued \cup {r.ret}
    /\ removed' = removed \ {r.ret}
    /\ UNCHANGED <<m_KeepOrder, phase, loop>>

Push(v) ==
    /\ phase = "ok"
    /\ Len(m_Data) < MaxSize
    /\ Inserted("push", push(Self, v), v)
    /\ UNCHANGED <<twin, twinRet>>

Emplace(v) ==
    /\ phase = "ok"
    /\ Len(m_Data) < MaxSize
    /\ Inserted("emplace", emplace(Self, v), v)
    /\ UNCHANGED <<twin, twinRet>>

\* remove of an ID that validID accepts
Removed(id) ==
    /\ phase = "ok"
    /\ validID(Self, id)
    /\ Store(remove(Self, m_KeepOrder, id, NoValue, invalidID))
    /\ lastOp' = Op("remove", id, NoValue, indexOf(Self, id), NoReason)
    /\ held' = Without(held, id)
    /\ removed' = removed \cup {id}
    /\ UNCHANGED <<m_KeepOrder, issued, phase, loop>>

Remove(id) == Removed(id) /\ UNCHANGED <<twin, twinRet>>

Cleared ==
    /\ phase = "ok"
    /\ Store(clear(Self))
    /\ lastOp' = Op("clear", invalidID, NoValue, 0, NoReason)
    /\ held' = <<>>
    /\ UNCHANGED <<m_KeepOrder, issued, removed, phase, loop>>

Clear == Cleared /\ UNCHANGED <<twin, twinRet>>

GetInserting(id) ==
    /\ phase = "ok"
    /\ LET r == get(Self, id)
       IN lastOp' = Op("get", id, r.val, 0, r.reason)
    /\ m_IDs' = IF id \in Handles /\ id >= Len(m_IDs) THEN Append(m_IDs, 0) ELSE m_IDs
    /\ UNCHANGED <<m_KeepOrder, m_Data, m_RevIDs, m_FreeIDSlots,
                   held, issued, removed, phase, aux>>

Get(id) ==
    /\ phase = "ok"
    /\ LET r == get(Self, id)
       IN lastOp' = Op("get", id, r.val, 0, r.reason)
    /\ UNCHANGED <<m_KeepOrder, m_Data, m_IDs, m_RevIDs, m_FreeIDSlots,
                   held, issued, removed, phase, aux>>

\* lastOp keeps the count asked for in val and the count passed on in at
Reserve(numElements) ==
    /\ phase = "ok"
    /\ LET r == reserve(Self, numElements)
       IN /\ Store(r.st)
          /\ lastOp' = Op("reserve", invalidID, numElements, r.amount, r.reason)
    /\ UNCHANGED <<m_KeepOrder, held, issued, removed, phase, aux>>

\* remove of an ID that is inside m_IDs but sits in m_FreeIDSlots.  remove
\* tests nothing.  With m_KeepOrder the loop body never runs; without it
\* swapDataLocation reads m_Data and m_RevIDs past their end.
RemoveStale(id) ==
    /\ phase = "ok"
    /\ id < Len(m_IDs)
    /\ ~validID(Self, id)
    /\ \E junkT \in Values, junkID \in Handles :
          Store(remove(Self, m_KeepOrder, id, junkT, junkID))
    /\ lastOp' = Op("remove", id, NoValue, indexOf(Self, id), NoReason)
    /\ held' = Without(held, id)
    /\ removed' = removed \cup {id}
    /\ phase' = "misused"
    /\ UNCHANGED <<m_KeepOrder, issued, aux>>

\* the other outcome of the out-of-range access: the process is stopped
RemoveStaleTrap(id) ==
    /\ phase = "ok"
    /\ id < Len(m_IDs)
    /\ ~validID(Self, id)
    /\ ~m_KeepOrder
    /\ indexOf(Self, id) >= Len(m_Data)
    /\ phase' = "aborted"
    /\ UNCHANGED <<m_KeepOrder, m_Data, m_IDs, m_RevIDs, m_FreeIDSlots,
                   lastOp, held, issued, removed, aux>>

Next ==
    \/ \E v \in Values : Push(v)
    \/ \E v \in Values : Emplace(v)
    \/ \E id \in Handles : Remove(id)
    \/ Clear
    \/ \E id \in Probes : Get(id)
    \/ \E numElements \in 0..MaxSize : Reserve(numElements)

\* the calls a caller that keeps to the contract makes
Spec == Init /\ [][Next]_vars

NextMisuse ==
    \/ Next
    \/ \E id \in Handles : RemoveStale(id)
    \/ \E id \in Handles : RemoveStaleTrap(id)

\* as Spec, and the caller may remove a stale ID once
MisuseSpec == Init /\ [][NextMisuse]_vars

\* remove with m_KeepOrder, one step per pass through its loop.
\* Entry: dataIndex, lastDataID and i = indexOf(id) are set.
RemoveBegin(id) ==
    /\ phase = "ok"
    /\ m_KeepOrder
    /\ validID(Self, id)
    /\ phase' = "removing"
    /\ loop' = [id |-> id, i |-> indexOf(Self, id), from |-> indexOf(Self, id),
                steps |-> 0, start |-> Self]
    /\ UNCHANGED <<m_KeepOrder, m_Data, m_IDs, m_RevIDs, m_FreeIDSlots,
                   lastOp, held, issued, removed, twin, twinRet>>

\* i < m_Data.size() - 1: swapDataLocation(idAt(i), idAt(i + 1)); i++
RemoveShift ==
    /\ phase = "removing"
    /\ loop.i < SizeSub(Len(m_Data), 1)
    /\ Store(removeLoopBody(Self, loop.i, NoValue, invalidID))
    /\ loop' = [loop EXCEPT !.i = @ + 1, !.steps = @ + 1]
    /\ UNCHANGED <<m_KeepOrder, lastOp, held, issued, removed, phase, twin, twinRet>>

\* the loop is left: push onto the free list, the pops, clear() when empty
RemoveFinish ==
    /\ phase = "removing"
    /\ ~(loop.i < SizeSub(Len(m_Data), 1))
    /\ Store(removeTail(Self, loop.id))
    /\ lastOp' = Op("remove", loop.id, NoValue, loop.from, NoReason)
    /\ held' = Without(held, loop.id)
    /\ removed' = removed \cup {loop.id}
    /\ phase' = "ok"
    /\ loop' = NoLoop
    /\ UNCHANGED <<m_KeepOrder, issued, twin, twinRet>>

\* remove without m_KeepOrder has no loop
RemoveSwapMode(id) == ~m_KeepOrder /\ Remove(id)

StepNext ==
    \/ \E v \in Values : Push(v)
    \/ \E v \in Values : Emplace(v)
    \/ \E id \in Handles : RemoveSwapMode(id)
    \/ \E id \in Handles : RemoveBegin(id)
    \/ RemoveShift
    \/ RemoveFinish
    \/ Clear
    \/ \E id \in Probes : Get(id)
    \/ \E numElements \in 0..MaxSize : Reserve(numElements)

\* as Spec, with the states inside the loop of a keep-order remove
StepSpec == Init /\ [][StepNext]_vars

\* the calls of Spec, each made on the twin as well
TwinPush(v) ==
    /\ phase = "ok"
    /\ Len(m_Data) < MaxSize
    /\ Inserted("push", push(Self, v), v)
    /\ TwinInserted("push", v)

TwinEmplace(v) ==
    /\ phase = "ok"
    /\ Len(m_Data) < MaxSize
    /\ Inserted("emplace", emplace(Self, v), v)
    /\ TwinInserted("emplace", v)

TwinRemove(id) == Removed(id) /\ TwinRemoved(indexOf(Self, id))

TwinClear == Cleared /\ twin' = clear(twin) /\ UNCHANGED twinRet

TwinNext ==
    \/ \E v \in Values : TwinPush(v)
    \/ \E v \in Values : TwinEmplace(v)
    \/ \E id \in Handles : TwinRemove(id)
    \/ TwinClear

\* a Vector and its twin without the reset, given the same calls; validID and
\* get change neither and are compared in every state instead of being steps
TwinSpec == Init /\ [][TwinNext]_vars

\* ------------------------------------------------------------ properties
Live(s) == {h \in Handles : validID(s, h)}
Positions(s) == 0..(size(s) - 1)

\* C1 (handle stability): every ID returned by push/emplace and not removed
\* since still passes get, and get yields the value inserted with it, whatever
\* insertions and removals of other IDs happened in between.
HandleStability ==
    \A h \in DOMAIN held :
        get(Self, h) = [ok |-> TRUE, val |-> held[h], reason |-> NoReason]

\* a swap removal moved the last element, of another value than the first, to
\* position 1, and get still finds it under its ID
HandleStabilityWitness ==
    /\ lastOp.op = "remove"
    /\ ~m_KeepOrder
    /\ lastOp.at = 1
    /\ size(Self) = 2
    /\ idAt(Self, 1) \in DOMAIN held
    /\ idAt(Self, 1) > lastOp.id
    /\ get(Self, idAt(Self, 1)).val = held[idAt(Self, 1)]
    /\ held[idAt(Self, 0)] # held[idAt(Self, 1)]

\* C2 (round trip): right after push(v) or emplace(v) returned h, validID(h)
\* holds and get(h) is v.
RoundTrip ==
    lastOp.op \in {"push", "emplace"} =>
        /\ validID(Self, lastOp.id)
        /\ get(Self, lastOp.id) = [ok |-> TRUE, val |-> lastOp.val, reason |-> NoReason]

\* an emplace that recycled an ID while another ID stayed free
RoundTripWitness ==
    /\ lastOp.op = "emplace"
    /\ m_FreeIDSlots # <<>>
    /\ lastOp.id < Len(m_IDs) - 1
    /\ get(Self, lastOp.id).val = lastOp.val

\* C3 (bidirectional consistency): m_RevIDs and m_IDs are inverse to each other
\* on the live IDs and on the storage positions.
BidirectionalConsistency ==
    /\ \A h \in Live(Self) :
          /\ indexOf(Self, h) \in Positions(Self)
          /\ indexOf(Self, h) < Len(m_RevIDs)
          /\ idAt(Self, indexOf(Self, h)) = h
    /\ Len(m_RevIDs) = Len(m_Data)
    /\ \A p \in Positions(Self) :
          /\ idAt(Self, p) \in 0..(Len(m_IDs) - 1)
          /\ indexOf(Self, idAt(Self, p)) = p

\* after a removal, two elements left, none of them at the position of its ID value
BidirectionalConsistencyWitness ==
    /\ lastOp.op = "remove"
    /\ size(Self) >= 2
    /\ \A h \in Live(Self) : indexOf(Self, h) # h

\* C4 (validity partition): for every ID ever returned, validID is true exactly
\* when the ID was returned by push/emplace and neither removed nor cleared since.
ValidityPartition ==
    \A h \in issued : validID(Self, h) <=> h \in DOMAIN held

\* a returned ID that is valid next to a removed one that is not
ValidityPartitionWitness ==
    \E h1, h2 \in issued :
        /\ validID(Self, h1)
        /\ ~validID(Self, h2)
        /\ h2 \in removed
        /\ h2 < Len(m_IDs)

\* C5 (size invariant): m_Data and m_RevIDs have the same length, which is the
\* number of ID values that validID accepts.
SizeInvariant ==
    /\ Len(m_Data) = Len(m_RevIDs)
    /\ size(Self) = Cardinality({i \in Probes : validID(Self, i)})

\* a removal that left elements behind
SizeInvariantWitness ==
    /\ lastOp.op = "remove"
    /\ size(Self) >= 1
    /\ m_FreeIDSlots # <<>>

\* C6 (free-list exactness): m_FreeIDSlots holds exactly the indices of m_IDs
\* that own no storage position, and none that owns one.
FreeListExact ==
    /\ Elems(m_FreeIDSlots) = {i \in 0..(Len(m_IDs) - 1) : i \notin Elems(m_RevIDs)}
    /\ Elems(m_FreeIDSlots) \cap Elems(m_RevIDs) = {}

\* free and live indices side by side, after a push that recycled one
FreeListExactWitness ==
    /\ lastOp.op = "push"
    /\ m_FreeIDSlots # <<>>
    /\ lastOp.id < Len(m_IDs) - 1

\* the remove of a live ID from more than one element, in the given mode
RemoveStep(keepOrder) ==
    /\ lastOp'.op = "remove"
    /\ phase' = "ok"
    /\ m_KeepOrder = keepOrder
    /\ size(Self) > 1

\* C7 (order-preserving removal): with m_KeepOrder, remove(h) of the element at
\* position p leaves the positions before p alone, moves element and ID of every
\* later position one down, shrinks size by one, keeps get of every other live
\* ID and makes h invalid.
OrderPreservingRemove ==
    [][RemoveStep(TRUE) =>
        LET h == lastOp'.id
            p == indexOf(Self, h)
        IN /\ size(SelfNext) = size(Self) - 1
           /\ Len(m_RevIDs') = size(Self) - 1
           /\ \A q \in 0..(p - 1) :
                 /\ dataAt(SelfNext, q) = dataAt(Self, q)
                 /\ idAt(SelfNext, q) = idAt(Self, q)
           /\ \A q \in (p + 1)..(size(Self) - 1) :
                 /\ dataAt(SelfNext, q - 1) = dataAt(Self, q)
                 /\ idAt(SelfNext, q - 1) = idAt(Self, q)
           /\ \A g \in Live(Self) \ {h} : get(SelfNext, g) = get(Self, g)
           /\ ~validID(SelfNext, h)
      ]_vars

\* a keep-order removal with elements before and after the removed one
OrderPreservingRemoveWitness ==
    /\ lastOp.op = "remove"
    /\ m_KeepOrder
    /\ lastOp.at >= 1
    /\ lastOp.at < size(Self)

\* C8 (swap removal): without m_KeepOrder, remove(h) of the element at position
\* p moves element and ID of the last position to p, leaves every other
\* remaining position alone, shrinks size by one, makes h invalid and keeps
\* every other live ID valid with its get unchanged.
SwapRemove ==
    [][RemoveStep(FALSE) =>
        LET h == lastOp'.id
            p == indexOf(Self, h)
            last == size(Self) - 1
        IN /\ size(SelfNext) = size(Self) - 1
           /\ Len(m_RevIDs') = size(Self) - 1
           /\ p < last =>
                 /\ dataAt(SelfNext, p) = dataAt(Self, last)
                 /\ idAt(SelfNext, p) = idAt(Self, last)
           /\ \A q \in Positions(Self) \ {p, last} :
                 /\ dataAt(SelfNext, q) = dataAt(Self, q)
                 /\ idAt(SelfNext, q) = idAt(Self, q)
           /\ ~validID(SelfNext, h)
           /\ \A g \in Live(Self) \ {h} :
                 /\ validID(SelfNext, g)
                 /\ get(SelfNext, g) = get(Self, g)
      ]_vars

\* a swap removal of the first of three elements
SwapRemoveWitness ==
    /\ lastOp.op = "remove"
    /\ ~m_KeepOrder
    /\ lastOp.at = 0
    /\ size(Self) >= 2

\* C9 as stated (error distinction): get of an ID outside m_IDs fails with
\* "ID out of bounds.", and get of a removed ID that was not returned again
\* fails with "The object with this id has been deleted.".
ErrorDistinctionAsStated ==
    lastOp.op = "get" =>
        /\ lastOp.id >= Len(m_IDs) => lastOp.reason = OutOfBounds
        /\ lastOp.id \in removed => lastOp.reason = Deleted

\* C9 amended: the removed ID fails with the deleted reason as long as its index
\* is still inside m_IDs; once clear, or the remove that emptied the vector, has
\* reset m_IDs, it fails with "ID out of bounds." like any other outside index.
ErrorDistinction ==
    lastOp.op = "get" =>
        /\ lastOp.id >= Len(m_IDs) => lastOp.reason = OutOfBounds
        /\ (lastOp.id \in removed /\ lastOp.id < Len(m_IDs)) => lastOp.reason = Deleted

\* get of a removed ID inside m_IDs, next to an index outside m_IDs
ErrorDistinctionWitness ==
    /\ lastOp.op = "get"
    /\ lastOp.id \in removed
    /\ lastOp.id < Len(m_IDs)
    /\ lastOp.reason = Deleted
    /\ get(Self, Len(m_IDs)).reason = OutOfBounds

\* C10 (remove of a stale ID corrupts nothing): remove of an ID inside m_IDs
\* that is in the free list leaves size, every live ID's validity and element,
\* and the invariants of C3, C5 and C6 (free list without duplicates) as they were.
StaleRemoveHarmless ==
    [][(phase = "ok" /\ phase' = "misused") =>
        /\ size(SelfNext) = size(Self)
        /\ Len(m_RevIDs') = Len(m_RevIDs)
        /\ Cardinality(Elems(m_FreeIDSlots')) = Len(m_FreeIDSlots')
        /\ \A g \in Live(Self) :
              /\ validID(SelfNext, g)
              /\ indexOf(SelfNext, g) < size(SelfNext)
              /\ get(SelfNext, g) = get(Self, g)
        /\ BidirectionalConsistency'
        /\ SizeInvariant'
        /\ FreeListExact'
      ]_vars

\* a step that is a completed push or emplace
InsertStep == lastOp'.op \in {"push", "emplace"} /\ phase' = "ok"

\* C11 (recycling never duplicates a live handle): the ID returned by push or
\* emplace is none of the IDs live at the call, and no two storage positions
\* are ever owned by equal IDs.
NoDuplicateLive ==
    [][InsertStep =>
        /\ lastOp'.id \notin Live(Self)
        /\ lastOp'.id \notin Elems(m_RevIDs)
        /\ validID(SelfNext, lastOp'.id)
        /\ \A p, q \in Positions(SelfNext) :
              p # q => idAt(SelfNext, p) # idAt(SelfNext, q)
      ]_vars

\* a push handed out a removed ID again while other IDs were live
NoDuplicateLiveWitness ==
    /\ lastOp.op = "push"
    /\ lastOp.id < Len(m_IDs) - 1
    /\ size(Self) >= 2
    /\ m_FreeIDSlots = <<>>

\* C12 (reset on empty): remove of the only element left leaves m_Data, m_IDs,
\* m_RevIDs and m_FreeIDSlots empty, so size is 0 and no issued ID is valid.
ResetOnEmpty ==
    [][(lastOp'.op = "remove" /\ phase' = "ok" /\ size(Self) = 1) =>
        /\ SelfNext = [data |-> <<>>, ids |-> <<>>, rev |-> <<>>, free |-> <<>>]
        /\ size(SelfNext) = 0
        /\ \A h \in issued' : ~validID(SelfNext, h)
      ]_vars

\* the last of several issued IDs was removed, in either mode
ResetOnEmptyWitness ==
    /\ lastOp.op = "remove"
    /\ m_Data = <<>>
    /\ Cardinality(issued) >= 2
    /\ removed = issued

\* C13 (LIFO recycling): a remove that leaves elements appends its ID to
\* m_FreeIDSlots; push/emplace returns and pops the last entry of a non-empty
\* m_FreeIDSlots, and otherwise returns the length m_IDs had before the call.
LifoRecycling ==
    [][/\ (lastOp'.op = "remove" /\ phase' = "ok" /\ size(Self) > 1) =>
              m_FreeIDSlots' = Append(m_FreeIDSlots, lastOp'.id)
       /\ InsertStep =>
              IF m_FreeIDSlots # <<>>
              THEN /\ lastOp'.id = Back(m_FreeIDSlots)
                   /\ m_FreeIDSlots' = PopBack(m_FreeIDSlots)
                   /\ Len(m_IDs') = Len(m_IDs)
              ELSE /\ lastOp'.id = Len(m_IDs)
                   /\ m_FreeIDSlots' = <<>>
                   /\ Len(m_IDs') = Len(m_IDs) + 1
      ]_vars

\* a push took the later freed of two free IDs and left the earlier one
LifoRecyclingWitness ==
    /\ lastOp.op = "push"
    /\ Len(m_FreeIDSlots) = 1
    /\ lastOp.id # Head(m_FreeIDSlots)
    /\ lastOp.id < Len(m_IDs)
    /\ Len(m_IDs) = size(Self) + 1

\* C14 (uniqueness of storage positions): two different live IDs never have the
\* same indexOf.
UniquePositions ==
    \A h1, h2 \in Live(Self) : h1 # h2 => indexOf(Self, h1) # indexOf(Self, h2)

\* three live IDs, one of them recycled after a removal moved the others
UniquePositionsWitness ==
    /\ Cardinality(Live(Self)) >= 3
    /\ lastOp.op = "emplace"
    /\ \A h \in Live(Self) : indexOf(Self, h) # h

\* C15 (a failed get mutates nothing): a get that fails, for either reason,
\* leaves the four vectors and the mode as they were, so every later call
\* starts from the state it would have started from without the get.
FailedGetMutatesNothing ==
    [][(lastOp'.op = "get" /\ lastOp'.reason # NoReason) =>
        /\ SelfNext = Self
        /\ m_KeepOrder' = m_KeepOrder
        /\ \A h \in Probes : get(SelfNext, h) = get(Self, h)
        /\ \A v \in Values : push(SelfNext, v) = push(Self, v)
      ]_vars

\* a get that failed on a stale ID while elements were stored
FailedGetMutatesNothingWitness ==
    /\ lastOp.op = "get"
    /\ lastOp.reason = Deleted
    /\ size(Self) >= 1
    /\ lastOp.id \in Elems(m_FreeIDSlots)

\* C16 (clear): clear empties the four vectors, so size is 0, no issued ID is
\* valid, the mode is kept and the next push returns index 0 as on a new vector.
ClearResets ==
    [][lastOp'.op = "clear" =>
        /\ SelfNext = [data |-> <<>>, ids |-> <<>>, rev |-> <<>>, free |-> <<>>]
        /\ size(SelfNext) = 0
        /\ m_KeepOrder' = m_KeepOrder
        /\ \A h \in issued' : ~validID(SelfNext, h)
        /\ \A v \in Values : push(SelfNext, v).ret = 0
      ]_vars

\* a clear of a vector that had issued IDs, some removed and some not
ClearResetsWitness ==
    /\ lastOp.op = "clear"
    /\ removed # {}
    /\ issued \ removed # {}

\* C20 (implicit slot-table shape): m_IDs is a permutation of its index range,
\* as long as size plus the free list, which has no duplicates; the k-th free
\* ID from the top has slot value size+k, so an in-range index is live exactly
\* when its slot value is below size.
SlotTableShape ==
    /\ Elems(m_IDs) = 0..(Len(m_IDs) - 1)
    /\ Len(m_IDs) = size(Self) + Len(m_FreeIDSlots)
    /\ Cardinality(Elems(m_FreeIDSlots)) = Len(m_FreeIDSlots)
    /\ \A k \in 0..(Len(m_FreeIDSlots) - 1) :
          LET f == m_FreeIDSlots[Len(m_FreeIDSlots) - k]
          IN f < Len(m_IDs) /\ indexOf(Self, f) = size(Self) + k
    /\ \A i \in 0..(Len(m_IDs) - 1) :
          validID(Self, i) <=> indexOf(Self, i) < size(Self)

\* two free IDs below a live one
SlotTableShapeWitness ==
    /\ Len(m_FreeIDSlots) = 2
    /\ size(Self) = 1
    /\ idAt(Self, 0) = 2

\* C19 (reserve underflow): when m_FreeIDSlots is longer than the count asked
\* for, the count reserve passes to m_IDs.reserve, n - len(free list), is
\* negative as an integer and arrives wrapped modulo 2^SizeBits, beyond
\* max_size; otherwise it is the plain difference.
ReserveUnderflow ==
    lastOp.op = "reserve" =>
        IF Len(m_FreeIDSlots) > lastOp.val
        THEN /\ lastOp.val - Len(m_FreeIDSlots) < 0
             /\ lastOp.at = lastOp.val - Len(m_FreeIDSlots) + SizeMod
             /\ lastOp.at > maxSize
             /\ lastOp.reason = LengthError
        ELSE /\ lastOp.at = lastOp.val - Len(m_FreeIDSlots)
             /\ lastOp.reason = NoReason

\* reserve(1) with two free IDs
ReserveUnderflowWitness ==
    /\ lastOp.op = "reserve"
    /\ lastOp.val = 1
    /\ Len(m_FreeIDSlots) = 2
    /\ lastOp.at = SizeMod - 1

\* C17 (step-wise consistency of order-preserving remove): inside the loop of a
\* keep-order remove of the ID at position p, m_IDs and m_RevIDs stay inverse
\* to each other on all size positions after every swap step, the ID being
\* removed sits at position p plus the steps done, and the loop is left after
\* exactly size-1-p steps with that ID on the last position and the vectors
\* that the loop as a whole computes.
StepwiseRemove ==
    phase = "removing" =>
        /\ Len(m_RevIDs) = size(Self)
        /\ \A q \in Positions(Self) :
              /\ idAt(Self, q) < Len(m_IDs)
              /\ indexOf(Self, idAt(Self, q)) = q
        /\ loop.i = loop.from + loop.steps
        /\ loop.steps <= size(Self) - 1 - loop.from
        /\ indexOf(Self, loop.id) = loop.i
        /\ ~(loop.i < SizeSub(size(Self), 1)) =>
              /\ loop.steps = size(Self) - 1 - loop.from
              /\ indexOf(Self, loop.id) = size(Self) - 1
              /\ idAt(Self, size(Self) - 1) = loop.id
              /\ Self = removeLoop(loop.start, loop.from, NoValue, invalidID)

\* the loop is left after two swap steps
StepwiseRemoveWitness ==
    /\ phase = "removing"
    /\ loop.steps = 2
    /\ loop.from = 0
    /\ ~(loop.i < SizeSub(size(Self), 1))
    /\ Self # loop.start

\* C18 as stated (reset on empty is invisible): the IDs returned, size, and the
\* results of validID and get, failure reason included, are those of the twin
\* whose remove does not reset.
ResetInvisibleAsStated ==
    /\ size(Self) = size(twin)
    /\ lastOp.op \in {"push", "emplace"} => lastOp.id = twinRet
    /\ \A h \in Probes :
          /\ validID(Self, h) <=> validID(twin, h)
          /\ get(Self, h) = get(twin, h)

\* C18 amended: size, the stored elements in storage order, and validID and get
\* of every stored element agree with the twin when each of the two is asked
\* with the ID it returned for that element itself; the ID values, and the
\* answers for IDs from before the reset, are not claimed to agree.
ResetInvisibleUpToIDs ==
    /\ size(Self) = size(twin)
    /\ m_Data = twin.data
    /\ Len(twin.rev) = Len(m_RevIDs)
    /\ Cardinality(Live(Self)) = Cardinality(Live(twin))
    /\ \A p \in Positions(Self) :
          /\ validID(Self, idAt(Self, p))
          /\ validID(twin, idAt(twin, p))
          /\ get(Self, idAt(Self, p)) = get(twin, idAt(twin, p))
    /\ lastOp.op \in {"push", "emplace"} =>
          /\ validID(twin, twinRet)
          /\ indexOf(twin, twinRet) = indexOf(Self, lastOp.id)
          /\ get(twin, twinRet) = get(Self, lastOp.id)

\* after a reset the two returned different IDs for the same element
ResetInvisibleUpToIDsWitness ==
    /\ lastOp.op = "push"
    /\ lastOp.id # twinRet
    /\ Len(twin.ids) > Len(m_IDs)
    /\ size(Self) >= 2
    /\ get(Self, lastOp.id) = get(twin, twinRet)

====
